---- MODULE Spec2Model ----
(***************************************************************************)
(* TikTokChecker (src/checker.py): username normalisation and validation,  *)
(* the retry-wrapped two-stage status resolver, the admission semaphore,   *)
(* the lazily created HTTP session with close(), and check_bulk.           *)
(*                                                                         *)
(* Strings are sequences of one-character strings.  One asyncio task is    *)
(* one caller; an action is the code a task runs between two suspensions.  *)
(***************************************************************************)
EXTENDS Integers, Sequences, FiniteSets, TLC

\* ------------------------------------------------------------------ bounds
MaxRawLen == 4          \* raw inputs: every string over Chars up to this length
NCallers == 2           \* concurrent tasks in the concurrency specification
ConcurrentLimit == 1    \* the concurrent_limit the checker is constructed with
MaxCloses == 2          \* calls of close() in one behaviour
MaxBulk == 2            \* length of the list handed to check_bulk

\* ------------------------------------------------------- program constants
MAX_RETRIES == 3
RETRY_DELAY == 2
PatternMin == 2
PatternMax == 24

\* --------------------------------------------------------------- strings
Chars == {"@", " ", "a", "B"}
PatternChars == {"a", "b", "A", "B", "0", "_", "."}
Whitespace == {" ", "\n", "\t"}

SeqsUpTo(S, n) == UNION {[1..k -> S] : k \in 0..n}

Rep(ch, n) == [i \in 1..n |-> ch]

LowerChar(ch) == CASE ch = "A" -> "a" [] ch = "B" -> "b" [] OTHER -> ch
UpperChar(ch) == CASE ch = "a" -> "A" [] ch = "b" -> "B" [] OTHER -> ch

Lower(s) == [i \in 1..Len(s) |-> LowerChar(s[i])]
Upper(s) == [i \in 1..Len(s) |-> UpperChar(s[i])]

\* str.lstrip('@'): drops every leading '@'
RECURSIVE LStripAt(_)
LStripAt(s) == IF s # <<>> /\ Head(s) = "@" THEN LStripAt(Tail(s)) ELSE s

RECURSIVE LStripWs(_)
LStripWs(s) == IF s # <<>> /\ Head(s) \in Whitespace THEN LStripWs(Tail(s)) ELSE s

RECURSIVE RStripWs(_)
RStripWs(s) ==
    IF s # <<>> /\ s[Len(s)] \in Whitespace
    THEN RStripWs(SubSeq(s, 1, Len(s) - 1)) ELSE s

\* str.strip()
Strip(s) == RStripWs(LStripWs(s))

\* USERNAME_PATTERN.match: ^[a-zA-Z0-9_.]{2,24}$ ; '$' also matches just
\* before one trailing newline
PatternCore(s) ==
    /\ Len(s) >= PatternMin
    /\ Len(s) <= PatternMax
    /\ \A i \in 1..Len(s) : s[i] \in PatternChars

USERNAME_PATTERN(s) ==
    \/ PatternCore(s)
    \/ s # <<>> /\ s[Len(s)] = "\n" /\ PatternCore(SubSeq(s, 1, Len(s) - 1))

validate_username(username) ==
    IF username = <<>> THEN FALSE
    ELSE USERNAME_PATTERN(Strip(LStripAt(username)))

\* a variant that removes one leading '@' only
clean_username_OneAt(username) ==
    Lower(Strip(IF username # <<>> /\ Head(username) = "@"
                THEN Tail(username) ELSE username))

clean_username(username) == Lower(Strip(LStripAt(username)))

\* --------------------------------------------------------------- results
Msg(text, n, err) == [text |-> text, n |-> n, err |-> err]

CheckResult(username, status, message) ==
    [username |-> username, status |-> status, message |-> message]

\* "no result yet" / Python's None
None == CheckResult(<<>>, "NONE", Msg("", 0, ""))

Absent == -1
NoException == ""

\* ------------------------------------------------- the remote's responses
OtherName == <<"z", "z">>
StatKeys == {"followercount", "heartcount", "follower_count"}

\* what one structured-probe request can end in, for queried handle h
ApiOutcomesFull(h) ==
    [kind : {"resp"}, err : {NoException}, status : {200}, parse : {"dict"},
     sc : {Absent, 0, 10202, 10101, 7}, sc2 : {Absent, 0, 10202},
     uid : {<<>>, h, Upper(h), OtherName}]
    \cup [kind : {"resp"}, err : {NoException}, status : {200, 403},
          parse : {"bad", "list"}, sc : {10202}, sc2 : {Absent}, uid : {h}]
    \cup [kind : {"resp"}, err : {NoException}, status : {403, 500},
          parse : {"dict"}, sc : {10202, 0}, sc2 : {Absent}, uid : {h}]
    \cup [kind : {"exc"}, err : {"ClientError", "TimeoutError", "Other"},
          status : {0}, parse : {"bad"}, sc : {Absent}, sc2 : {Absent},
          uid : {<<>>}]

ApiOutcomesLite(h) ==
    {o \in ApiOutcomesFull(h) :
        \/ o.kind = "resp" /\ o.status = 200 /\ o.parse = "dict"
           /\ o.sc = 10202 /\ o.sc2 = Absent /\ o.uid = <<>>
        \/ o.kind = "resp" /\ o.status = 403 /\ o.parse = "bad"}

Bodies(h) ==
    [dnf : BOOLEAN, uid : {<<>>, h, Upper(h), OtherName},
     stats : SUBSET StatKeys, banned : BOOLEAN, tnf : BOOLEAN]

EmptyBody == [dnf |-> FALSE, uid |-> <<>>, stats |-> {}, banned |-> FALSE,
              tnf |-> FALSE]

PlainBodies(h) ==
    {EmptyBody,
     [dnf |-> TRUE, uid |-> h, stats |-> StatKeys, banned |-> TRUE,
      tnf |-> TRUE]}

HttpStatuses == {200, 204, 302, 403, 404, 429, 500, 503}

\* what one profile-page request can end in, for requested handle h
PageOutcomesFull(h) ==
    [kind : {"resp"}, err : {NoException}, status : {200}, body : Bodies(h)]
    \cup [kind : {"resp"}, err : {NoException}, status : HttpStatuses,
          body : PlainBodies(h)]
    \cup [kind : {"exc"}, err : {"ClientError", "TimeoutError", "Other"},
          status : {0}, body : {EmptyBody}]

PageOutcomesLite(h) ==
    [kind : {"resp"}, err : {NoException}, status : {200},
     body : {EmptyBody}]
    \cup [kind : {"exc"}, err : {"ClientError", "Other"},
          status : {0}, body : {EmptyBody}]

NoResponse == [kind |-> "none", err |-> NoException, status |-> 0,
               body |-> EmptyBody]

NoApiResponse == [kind |-> "none", err |-> NoException, status |-> 0,
                  parse |-> "bad", sc |-> Absent, sc2 |-> Absent, uid |-> <<>>]

\* ------------------------------------------------------- the classifiers
\* _check_via_api after the request: the result decided by outcome o
\* (None = inconclusive)
\* a variant that takes statusCode 0 as TAKEN without comparing uniqueId
check_via_api_NoUidCheck(username, o) ==
    IF o.kind = "exc" THEN None
    ELSE IF o.status # 200 THEN None
    ELSE IF o.parse # "dict" THEN None
    ELSE LET status_code == IF o.sc # Absent THEN o.sc
                            ELSE IF o.sc2 # Absent THEN o.sc2 ELSE 0
         IN  IF status_code = 0
             THEN CheckResult(username, "TAKEN", Msg("api_taken", 0, ""))
             ELSE IF status_code = 10202
             THEN CheckResult(username, "AVAILABLE", Msg("api_available", 0, ""))
             ELSE IF status_code = 10101
             THEN CheckResult(username, "UNAVAILABLE", Msg("api_banned", 0, ""))
             ELSE None

check_via_api(username, o) ==
    IF o.kind = "exc" THEN None
    ELSE IF o.status # 200 THEN None
    ELSE IF o.parse # "dict" THEN None
    ELSE LET status_code == IF o.sc # Absent THEN o.sc
                            ELSE IF o.sc2 # Absent THEN o.sc2 ELSE 0
         IN  IF status_code = 0 /\ Lower(o.uid) = Lower(username)
             THEN CheckResult(username, "TAKEN", Msg("api_taken", 0, ""))
             ELSE IF status_code = 10202
             THEN CheckResult(username, "AVAILABLE", Msg("api_available", 0, ""))
             ELSE IF status_code = 10101
             THEN CheckResult(username, "UNAVAILABLE", Msg("api_banned", 0, ""))
             ELSE None

\* the exception the two except clauses of _check_via_api swallow, if any:
\* the request's own, or the one raised by response.json() or by .get on
\* something that is not a dict
ProbeError(o) ==
    IF o.kind = "exc" THEN o.err
    ELSE IF o.status = 200 /\ o.parse # "dict" THEN "ParseError"
    ELSE NoException

\* a variant without the 403 branch
analyze_response_No403(username, status_code, content) ==
    IF status_code = 404
    THEN CheckResult(username, "AVAILABLE", Msg("free", 0, ""))
    ELSE IF status_code = 200
    THEN IF content.dnf
         THEN CheckResult(username, "AVAILABLE", Msg("free", 0, ""))
         ELSE IF content.uid # <<>> /\ Lower(content.uid) = Lower(username)
         THEN CheckResult(username, "TAKEN", Msg("taken", 0, ""))
         ELSE IF Cardinality(content.stats) >= 2
         THEN CheckResult(username, "TAKEN", Msg("taken", 0, ""))
         ELSE IF content.banned
         THEN CheckResult(username, "UNAVAILABLE", Msg("banned", 0, ""))
         ELSE IF content.tnf
         THEN CheckResult(username, "AVAILABLE", Msg("free", 0, ""))
         ELSE CheckResult(username, "TAKEN", Msg("manual", 0, ""))
    ELSE IF status_code >= 500
    THEN CheckResult(username, "ERROR", Msg("server", status_code, ""))
    ELSE CheckResult(username, "TAKEN", Msg("unknown_status", status_code, ""))

\* a variant for which one profile-statistics key is enough
analyze_response_Score1(username, status_code, content) ==
    IF status_code = 404
    THEN CheckResult(username, "AVAILABLE", Msg("free", 0, ""))
    ELSE IF status_code = 200
    THEN IF content.dnf
         THEN CheckResult(username, "AVAILABLE", Msg("free", 0, ""))
         ELSE IF content.uid # <<>> /\ Lower(content.uid) = Lower(username)
         THEN CheckResult(username, "TAKEN", Msg("taken", 0, ""))
         ELSE IF Cardinality(content.stats) >= 1
         THEN CheckResult(username, "TAKEN", Msg("taken", 0, ""))
         ELSE IF content.banned
         THEN CheckResult(username, "UNAVAILABLE", Msg("banned", 0, ""))
         ELSE IF content.tnf
         THEN CheckResult(username, "AVAILABLE", Msg("free", 0, ""))
         ELSE CheckResult(username, "TAKEN", Msg("manual", 0, ""))
    ELSE IF status_code = 403
    THEN CheckResult(username, "ERROR", Msg("forbidden", 0, ""))
    ELSE IF status_code >= 500
    THEN CheckResult(username, "ERROR", Msg("server", status_code, ""))
    ELSE CheckResult(username, "TAKEN", Msg("unknown_status", status_code, ""))

\* a variant whose default for an unrecognised page is AVAILABLE
analyze_response_DefaultAvailable(username, status_code, content) ==
    IF status_code = 404
    THEN CheckResult(username, "AVAILABLE", Msg("free", 0, ""))
    ELSE IF status_code = 200
    THEN IF content.dnf
         THEN CheckResult(username, "AVAILABLE", Msg("free", 0, ""))
         ELSE IF content.uid # <<>> /\ Lower(content.uid) = Lower(username)
         THEN CheckResult(username, "TAKEN", Msg("taken", 0, ""))
         ELSE IF Cardinality(content.stats) >= 2
         THEN CheckResult(username, "TAKEN", Msg("taken", 0, ""))
         ELSE IF content.banned
         THEN CheckResult(username, "UNAVAILABLE", Msg("banned", 0, ""))
         ELSE IF content.tnf
         THEN CheckResult(username, "AVAILABLE", Msg("free", 0, ""))
         ELSE CheckResult(username, "AVAILABLE", Msg("manual", 0, ""))
    ELSE IF status_code = 403
    THEN CheckResult(username, "ERROR", Msg("forbidden", 0, ""))
    ELSE IF status_code >= 500
    THEN CheckResult(username, "ERROR", Msg("server", status_code, ""))
    ELSE CheckResult(username, "TAKEN", Msg("unknown_status", status_code, ""))

analyze_response(username, status_code, content) ==
    IF status_code = 404
    THEN CheckResult(username, "AVAILABLE", Msg("free", 0, ""))
    ELSE IF status_code = 200
    THEN IF content.dnf
         THEN CheckResult(username, "AVAILABLE", Msg("free", 0, ""))
         ELSE IF content.uid # <<>> /\ Lower(content.uid) = Lower(username)
         THEN CheckResult(username, "TAKEN", Msg("taken", 0, ""))
         ELSE IF Cardinality(content.stats) >= 2
         THEN CheckResult(username, "TAKEN", Msg("taken", 0, ""))
         ELSE IF content.banned
         THEN CheckResult(username, "UNAVAILABLE", Msg("banned", 0, ""))
         ELSE IF content.tnf
         THEN CheckResult(username, "AVAILABLE", Msg("free", 0, ""))
         ELSE CheckResult(username, "TAKEN", Msg("manual", 0, ""))
    ELSE IF status_code = 403
    THEN CheckResult(username, "ERROR", Msg("forbidden", 0, ""))
    ELSE IF status_code >= 500
    THEN CheckResult(username, "ERROR", Msg("server", status_code, ""))
    ELSE CheckResult(username, "TAKEN", Msg("unknown_status", status_code, ""))

\* ------------------------------------------------------------------ state
VARIABLES
    sem,          \* _semaphore: free permits
    session,      \* _session: 0 = None, else the id of a ClientSession
    closedS,      \* ids of the sessions whose .closed is True
    nsess,        \* ClientSessions constructed so far
    pc,           \* per task: where its check_username call stands
    raw,          \* per task: the username argument of check_username
    clean,        \* per task: clean_name
    attempt,      \* per task: loop variable of _check_with_retry
    last_error,   \* per task: last_error of _check_with_retry
    result,       \* per task: the CheckResult returned (None before)
    exc,          \* per task: the exception check_username raised
    resp,         \* per task: what this attempt's profile-page request ended in
    trace,        \* per task: requests issued and backoff sleeps, in order
    usernames,    \* check_bulk: its argument
    bi,           \* check_bulk: 1-based index of the handle being resolved
    results,      \* check_bulk: the results list
    bpc,          \* check_bulk: position
    paces,        \* check_bulk: pacing sleeps begun so far
    cpc,          \* close(): position
    ncloses,      \* close() calls finished
    remote,       \* which repertoire of responses the remote has in this run
    api_result,   \* per task: api_result of _perform_check in this attempt
    api_error,    \* per task: the exception _check_via_api swallowed in this attempt
    api_response  \* the probe response of the run, where the run fixes one

vars == <<sem, session, closedS, nsess, pc, raw, clean, attempt, last_error,
          result, exc, resp, trace, usernames, bi, results, bpc, paces,
          cpc,
          ncloses, remote, api_result, api_error, api_response>>

callVars == <<pc, raw, clean, attempt, last_error, result, exc, resp, trace,
              api_result, api_error>>
bulkVars == <<usernames, bi, results, bpc, paces>>
closeVars == <<cpc, ncloses>>
sessVars == <<session, closedS, nsess>>

Callers == 1..NCallers
\* the task that runs check_bulk: the first one
BulkCaller == CHOOSE c \in Callers : \A d \in Callers : c <= d

Ev(kind, h, d) == [ev |-> kind, h |-> h, d |-> d]

ApiOutcomes(h) ==
    IF remote = "full" THEN ApiOutcomesFull(h)
    ELSE IF remote = "lite" THEN ApiOutcomesLite(h)
    ELSE {api_response}
PageOutcomes(h) ==
    IF remote \in {"full", "probe"} THEN PageOutcomesFull(h) ELSE PageOutcomesLite(h)

\* a variant that tests only for None
NeedSession_NoClosedCheck == session = 0

\* _get_session: the session it returns, and the constructor count after it
NeedSession == session = 0 \/ session \in closedS
SessionAfterGet == IF NeedSession THEN nsess + 1 ELSE session
NsessAfterGet == IF NeedSession THEN nsess + 1 ELSE nsess

\* start of attempt k: _perform_check -> _check_via_api -> _get_session ->
\* session.get(api_url), where the task suspends
IssueProbe(c, h, k) ==
    /\ session' = SessionAfterGet
    /\ nsess' = NsessAfterGet
    /\ attempt' = [attempt EXCEPT ![c] = k]
    /\ trace' = [trace EXCEPT ![c] = Append(@, Ev("api", h, 0))]
    /\ resp' = [resp EXCEPT ![c] = NoResponse]
    /\ api_result' = [api_result EXCEPT ![c] = None]
    /\ api_error' = [api_error EXCEPT ![c] = NoException]
    /\ pc' = [pc EXCEPT ![c] = "api_wait"]
    /\ UNCHANGED closedS

\* a variant that reports the cleaned name in the format rejection
FormatError_Clean(username) ==
    CheckResult(clean_username(username), "UNAVAILABLE", Msg("format", 0, ""))

FormatError(username) ==
    CheckResult(username, "UNAVAILABLE", Msg("format", 0, ""))

\* a variant that enters without looking at the semaphore's value
StartCall_NoGate(c, u) ==
    LET clean_name == clean_username(u) IN
    /\ raw' = [raw EXCEPT ![c] = u]
    /\ clean' = [clean EXCEPT ![c] = clean_name]
    /\ last_error' = [last_error EXCEPT ![c] = NoException]
    /\ exc' = [exc EXCEPT ![c] = NoException]
    /\ IF ~validate_username(clean_name)
       THEN /\ result' = [result EXCEPT ![c] = FormatError(u)]
            /\ pc' = [pc EXCEPT ![c] = "done"]
            /\ UNCHANGED <<sem, sessVars, attempt, trace, resp, api_result,
                           api_error>>
       ELSE /\ result' = [result EXCEPT ![c] = None]
            /\ sem' = sem - 1
            /\ IssueProbe(c, clean_name, 1)

\* check_username(u) up to its first suspension
\* a variant that validates the format inside the semaphore
StartCall_GateFirst(c, u) ==
    LET clean_name == clean_username(u) IN
    /\ raw' = [raw EXCEPT ![c] = u]
    /\ clean' = [clean EXCEPT ![c] = clean_name]
    /\ last_error' = [last_error EXCEPT ![c] = NoException]
    /\ exc' = [exc EXCEPT ![c] = NoException]
    /\ IF sem = 0
       THEN /\ result' = [result EXCEPT ![c] = None]
            /\ pc' = [pc EXCEPT ![c] = "gate"]
            /\ UNCHANGED <<sem, sessVars, attempt, trace, resp, api_result,
                           api_error>>
       ELSE IF ~validate_username(clean_name)
       THEN /\ result' = [result EXCEPT ![c] = FormatError(u)]
            /\ pc' = [pc EXCEPT ![c] = "done"]
            /\ UNCHANGED <<sem, sessVars, attempt, trace, resp, api_result,
                           api_error>>
       ELSE /\ result' = [result EXCEPT ![c] = None]
            /\ sem' = sem - 1
            /\ IssueProbe(c, clean_name, 1)

StartCall(c, u) ==
    LET clean_name == clean_username(u) IN
    /\ raw' = [raw EXCEPT ![c] = u]
    /\ clean' = [clean EXCEPT ![c] = clean_name]
    /\ last_error' = [last_error EXCEPT ![c] = NoException]
    /\ exc' = [exc EXCEPT ![c] = NoException]
    /\ IF ~validate_username(clean_name)
       THEN /\ result' = [result EXCEPT ![c] = FormatError(u)]
            /\ pc' = [pc EXCEPT ![c] = "done"]
            /\ UNCHANGED <<sem, sessVars, attempt, trace, resp, api_result,
                           api_error>>
       ELSE /\ result' = [result EXCEPT ![c] = None]
            /\ IF sem > 0
               THEN /\ sem' = sem - 1
                    /\ IssueProbe(c, clean_name, 1)
               ELSE /\ pc' = [pc EXCEPT ![c] = "gate"]
                    /\ UNCHANGED <<sem, sessVars, attempt, trace, resp, api_result,
                           api_error>>

\* a task calls check_username(raw[c])
Call(c) ==
    /\ pc[c] = "start"
    /\ c # BulkCaller
    /\ StartCall(c, raw[c])
    /\ UNCHANGED <<bulkVars, closeVars, remote, api_response>>

\* async with self._semaphore: a waiting task gets a permit
Acquire(c) ==
    /\ pc[c] = "gate"
    /\ sem > 0
    /\ sem' = sem - 1
    /\ IssueProbe(c, clean[c], 1)
    /\ UNCHANGED <<raw, clean, last_error, result, exc, bulkVars,
                   closeVars, remote, api_response>>

\* a variant whose probe lets its exceptions escape
ApiDone_ProbeRaises(c) ==
    /\ pc[c] = "api_wait"
    /\ \E o \in ApiOutcomes(clean[c]) :
        LET r == check_via_api(clean[c], o) IN
        /\ api_result' = [api_result EXCEPT ![c] = r]
        /\ api_error' = [api_error EXCEPT ![c] = ProbeError(o)]
        /\ IF o.kind = "exc"
           THEN /\ exc' = [exc EXCEPT ![c] = o.err]
                /\ pc' = [pc EXCEPT ![c] = "raised"]
                /\ sem' = sem + 1
                /\ UNCHANGED <<sessVars, trace, result>>
           ELSE IF r # None
           THEN /\ result' = [result EXCEPT ![c] = r]
                /\ pc' = [pc EXCEPT ![c] = "done"]
                /\ sem' = sem + 1
                /\ UNCHANGED <<sessVars, trace, exc>>
           ELSE /\ session' = SessionAfterGet
                /\ nsess' = NsessAfterGet
                /\ trace' = [trace EXCEPT ![c] =
                               Append(@, Ev("page", clean[c], 0))]
                /\ pc' = [pc EXCEPT ![c] = "page_wait"]
                /\ UNCHANGED <<sem, closedS, result, exc>>
    /\ UNCHANGED <<raw, clean, attempt, last_error, resp, bulkVars,
                   closeVars, remote, api_response>>

\* the probe request ends; a conclusive result is returned through
\* _perform_check, _check_with_retry and the semaphore's __aexit__,
\* otherwise the profile page is requested
\* a variant that requests the profile page whatever the probe said
ApiDone_PageAnyway(c) ==
    /\ pc[c] = "api_wait"
    /\ \E o \in ApiOutcomes(clean[c]) :
        /\ api_result' = [api_result EXCEPT ![c] = check_via_api(clean[c], o)]
        /\ api_error' = [api_error EXCEPT ![c] = ProbeError(o)]
        /\ session' = SessionAfterGet
        /\ nsess' = NsessAfterGet
        /\ trace' = [trace EXCEPT ![c] = Append(@, Ev("page", clean[c], 0))]
        /\ pc' = [pc EXCEPT ![c] = "page_wait"]
        /\ UNCHANGED <<sem, closedS, result>>
    /\ UNCHANGED <<raw, clean, attempt, last_error, exc, resp, bulkVars,
                   closeVars, remote, api_response>>

\* a variant whose probe hands its transport faults to the retry loop
ApiDone_FaultToRetryLoop(c) ==
    /\ pc[c] = "api_wait"
    /\ \E o \in ApiOutcomes(clean[c]) :
        LET r == check_via_api(clean[c], o) IN
        /\ api_result' = [api_result EXCEPT ![c] = r]
        /\ api_error' = [api_error EXCEPT ![c] = ProbeError(o)]
        /\ IF o.kind = "exc" /\ o.err \in {"ClientError", "TimeoutError"}
           THEN /\ last_error' = [last_error EXCEPT ![c] = o.err]
                /\ trace' = [trace EXCEPT ![c] =
                     Append(@, Ev("sleep", clean[c], RETRY_DELAY * attempt[c]))]
                /\ pc' = [pc EXCEPT ![c] = "sleep"]
                /\ UNCHANGED <<sem, result, exc, sessVars>>
           ELSE IF r # None
           THEN /\ result' = [result EXCEPT ![c] = r]
                /\ pc' = [pc EXCEPT ![c] = "done"]
                /\ sem' = sem + 1
                /\ UNCHANGED <<sessVars, trace, last_error, exc>>
           ELSE /\ session' = SessionAfterGet
                /\ nsess' = NsessAfterGet
                /\ trace' = [trace EXCEPT ![c] =
                               Append(@, Ev("page", clean[c], 0))]
                /\ pc' = [pc EXCEPT ![c] = "page_wait"]
                /\ UNCHANGED <<sem, closedS, result, last_error, exc>>
    /\ UNCHANGED <<raw, clean, attempt, resp, bulkVars,
                   closeVars, remote, api_response>>

ApiDone(c) ==
    /\ pc[c] = "api_wait"
    /\ \E o \in ApiOutcomes(clean[c]) :
        LET r == check_via_api(clean[c], o) IN
        /\ api_result' = [api_result EXCEPT ![c] = r]
        /\ api_error' = [api_error EXCEPT ![c] = ProbeError(o)]
        /\ IF r # None
           THEN /\ result' = [result EXCEPT ![c] = r]
                /\ pc' = [pc EXCEPT ![c] = "done"]
                /\ sem' = sem + 1
                /\ UNCHANGED <<sessVars, trace>>
           ELSE /\ session' = SessionAfterGet
                /\ nsess' = NsessAfterGet
                /\ trace' = [trace EXCEPT ![c] =
                               Append(@, Ev("page", clean[c], 0))]
                /\ pc' = [pc EXCEPT ![c] = "page_wait"]
                /\ UNCHANGED <<sem, closedS, result>>
    /\ UNCHANGED <<raw, clean, attempt, last_error, exc, resp, bulkVars,
                   closeVars, remote, api_response>>

Exhausted(username, err) ==
    CheckResult(username, "ERROR", Msg("exhausted", MAX_RETRIES, err))

TransportFaults == {"ClientError", "TimeoutError"}

\* a variant that also retries when the classification is ERROR
OnResponse_RetryOnError(c, o) ==
    LET r == analyze_response(clean[c], o.status, o.body) IN
    IF r.status = "ERROR" /\ attempt[c] < MAX_RETRIES
    THEN /\ trace' = [trace EXCEPT ![c] =
                        Append(@, Ev("sleep", clean[c], RETRY_DELAY * attempt[c]))]
         /\ pc' = [pc EXCEPT ![c] = "sleep"]
         /\ UNCHANGED <<sem, result, last_error, exc>>
    ELSE /\ result' = [result EXCEPT ![c] = r]
         /\ pc' = [pc EXCEPT ![c] = "done"]
         /\ sem' = sem + 1
         /\ UNCHANGED <<last_error, exc, trace>>

\* a response arrived and its body was read: _analyze_response decides, the
\* result is returned through _check_with_retry and the semaphore's __aexit__
OnResponse(c, o) ==
    /\ result' = [result EXCEPT ![c] =
                    analyze_response(clean[c], o.status, o.body)]
    /\ pc' = [pc EXCEPT ![c] = "done"]
    /\ sem' = sem + 1
    /\ UNCHANGED <<last_error, exc, trace>>

\* a variant that lets the fault of the last attempt escape
OnTransportFault_RaiseLast(c, o) ==
    /\ last_error' = [last_error EXCEPT ![c] = o.err]
    /\ IF attempt[c] < MAX_RETRIES
       THEN /\ trace' = [trace EXCEPT ![c] =
                  Append(@, Ev("sleep", clean[c], RETRY_DELAY * attempt[c]))]
            /\ pc' = [pc EXCEPT ![c] = "sleep"]
            /\ UNCHANGED <<sem, result, exc>>
       ELSE /\ exc' = [exc EXCEPT ![c] = o.err]
            /\ pc' = [pc EXCEPT ![c] = "raised"]
            /\ sem' = sem + 1
            /\ UNCHANGED <<result, trace>>

\* except aiohttp.ClientError / except asyncio.TimeoutError in
\* _check_with_retry: back off and retry, or give up after the last attempt
\* a variant that backs off by a fixed RETRY_DELAY
OnTransportFault_FixedDelay(c, o) ==
    /\ last_error' = [last_error EXCEPT ![c] = o.err]
    /\ IF attempt[c] < MAX_RETRIES
       THEN /\ trace' = [trace EXCEPT ![c] =
                  Append(@, Ev("sleep", clean[c], RETRY_DELAY))]
            /\ pc' = [pc EXCEPT ![c] = "sleep"]
            /\ UNCHANGED <<sem, result, exc>>
       ELSE /\ result' = [result EXCEPT ![c] = Exhausted(clean[c], o.err)]
            /\ pc' = [pc EXCEPT ![c] = "done"]
            /\ sem' = sem + 1
            /\ UNCHANGED <<exc, trace>>

\* a variant that gives up one attempt too late
OnTransportFault_OneMore(c, o) ==
    /\ last_error' = [last_error EXCEPT ![c] = o.err]
    /\ IF attempt[c] <= MAX_RETRIES
       THEN /\ trace' = [trace EXCEPT ![c] =
                  Append(@, Ev("sleep", clean[c], RETRY_DELAY * attempt[c]))]
            /\ pc' = [pc EXCEPT ![c] = "sleep"]
            /\ UNCHANGED <<sem, result, exc>>
       ELSE /\ result' = [result EXCEPT ![c] = Exhausted(clean[c], o.err)]
            /\ pc' = [pc EXCEPT ![c] = "done"]
            /\ sem' = sem + 1
            /\ UNCHANGED <<exc, trace>>

OnTransportFault(c, o) ==
    /\ last_error' = [last_error EXCEPT ![c] = o.err]
    /\ IF attempt[c] < MAX_RETRIES
       THEN /\ trace' = [trace EXCEPT ![c] =
                  Append(@, Ev("sleep", clean[c], RETRY_DELAY * attempt[c]))]
            /\ pc' = [pc EXCEPT ![c] = "sleep"]
            /\ UNCHANGED <<sem, result, exc>>
       ELSE /\ result' = [result EXCEPT ![c] = Exhausted(clean[c], o.err)]
            /\ pc' = [pc EXCEPT ![c] = "done"]
            /\ sem' = sem + 1
            /\ UNCHANGED <<exc, trace>>

\* any other exception is caught nowhere below check_username: it leaves
\* through the semaphore's __aexit__, which releases the permit
\* a variant in which an escaping exception keeps the permit
OnOtherException_KeepsPermit(c, o) ==
    /\ exc' = [exc EXCEPT ![c] = o.err]
    /\ pc' = [pc EXCEPT ![c] = "raised"]
    /\ sem' = sem
    /\ UNCHANGED <<last_error, result, trace>>

OnOtherException(c, o) ==
    /\ exc' = [exc EXCEPT ![c] = o.err]
    /\ pc' = [pc EXCEPT ![c] = "raised"]
    /\ sem' = sem + 1
    /\ UNCHANGED <<last_error, result, trace>>

\* the profile-page request of _perform_check ends
PageDone(c) ==
    /\ pc[c] = "page_wait"
    /\ \E o \in PageOutcomes(clean[c]) :
        /\ resp' = [resp EXCEPT ![c] = o]
        /\ IF o.kind = "resp" THEN OnResponse(c, o)
           ELSE IF o.err \in TransportFaults THEN OnTransportFault(c, o)
           ELSE OnOtherException(c, o)
    /\ UNCHANGED <<sessVars, raw, clean, attempt, api_result, api_error,
                   bulkVars, closeVars, remote, api_response>>

\* asyncio.sleep(RETRY_DELAY * attempt) is over: next iteration of the loop
Wake(c) ==
    /\ pc[c] = "sleep"
    /\ IssueProbe(c, clean[c], attempt[c] + 1)
    /\ UNCHANGED <<sem, raw, clean, last_error, result, exc, bulkVars,
                   closeVars, remote, api_response>>

\* ---------------------------------------------------------------- close()
SessionOpen == session # 0 /\ session \notin closedS

\* close() up to its suspension in session.close(); the session reports
\* closed from here on
Close ==
    /\ cpc = "idle"
    /\ ncloses < MaxCloses
    /\ IF SessionOpen
       THEN /\ closedS' = closedS \cup {session}
            /\ cpc' = "closing"
            /\ UNCHANGED <<session, nsess, ncloses>>
       ELSE /\ ncloses' = ncloses + 1
            /\ UNCHANGED <<sessVars, cpc>>
    /\ UNCHANGED <<sem, callVars, bulkVars, remote, api_response>>

\* session.close() is over: self._session = None
CloseEnd ==
    /\ cpc = "closing"
    /\ session' = 0
    /\ cpc' = "idle"
    /\ ncloses' = ncloses + 1
    /\ UNCHANGED <<sem, closedS, nsess, callVars, bulkVars, remote, api_response>>

\* ------------------------------------------------------------- check_bulk
\* the frame of the finished check_username call is gone; the task is ready
\* for its next call
DropFrame(c) ==
    /\ pc' = [pc EXCEPT ![c] = "start"]
    /\ attempt' = [attempt EXCEPT ![c] = 0]
    /\ trace' = [trace EXCEPT ![c] = <<>>]
    /\ resp' = [resp EXCEPT ![c] = NoResponse]
    /\ api_result' = [api_result EXCEPT ![c] = None]
    /\ api_error' = [api_error EXCEPT ![c] = NoException]

\* check_bulk(usernames) up to the first loop iteration
\* a variant without the early return for an empty list
BulkStart_NoEmptyCheck ==
    /\ bpc = "start"
    /\ results' = <<>>
    /\ bpc' = "loop" /\ bi' = 1
    /\ UNCHANGED <<sem, sessVars, callVars, usernames, paces, closeVars, remote,
                   api_response>>

BulkStart ==
    /\ bpc = "start"
    /\ results' = <<>>
    /\ IF usernames = <<>>
       THEN bpc' = "returned" /\ bi' = bi
       ELSE bpc' = "loop" /\ bi' = 1
    /\ UNCHANGED <<sem, sessVars, callVars, usernames, paces, closeVars, remote,
                   api_response>>

\* one loop iteration begins: await self.check_username(username)
BulkIter ==
    /\ bpc = "loop"
    /\ pc[BulkCaller] = "start"
    /\ StartCall(BulkCaller, usernames[bi])
    /\ bpc' = "calling"
    /\ UNCHANGED <<usernames, bi, results, paces, closeVars, remote, api_response>>

\* check_username returned: results.append(result), then the pacing sleep
\* unless this was the last handle
BulkResult ==
    /\ bpc = "calling"
    /\ pc[BulkCaller] = "done"
    /\ results' = Append(results, result[BulkCaller])
    /\ DropFrame(BulkCaller)
    /\ IF bi - 1 < Len(usernames) - 1
       THEN bpc' = "pacing" /\ paces' = paces + 1
       ELSE bpc' = "returned" /\ paces' = paces
    /\ UNCHANGED <<sem, sessVars, raw, clean, last_error, result,
                   exc, usernames, bi, closeVars, remote, api_response>>

\* asyncio.sleep(0.5) is over
BulkPaced ==
    /\ bpc = "pacing"
    /\ bi' = bi + 1
    /\ bpc' = "loop"
    /\ UNCHANGED <<sem, sessVars, callVars, usernames, results, paces, closeVars,
                   remote, api_response>>

\* a variant that swallows the exception without a result
BulkExcept_NoAppend ==
    /\ bpc = "calling"
    /\ pc[BulkCaller] = "raised"
    /\ results' = results
    /\ DropFrame(BulkCaller)
    /\ IF bi < Len(usernames)
       THEN bi' = bi + 1 /\ bpc' = "loop"
       ELSE bi' = bi /\ bpc' = "returned"
    /\ UNCHANGED <<sem, sessVars, raw, clean, last_error, result,
                   exc, usernames, paces, closeVars, remote, api_response>>

\* a variant whose handler sits outside the loop: the first exception ends
\* the batch
BulkExcept_Abort ==
    /\ bpc = "calling"
    /\ pc[BulkCaller] = "raised"
    /\ results' = Append(results,
                         CheckResult(usernames[bi], "ERROR",
                                     Msg("exception", 0, exc[BulkCaller])))
    /\ DropFrame(BulkCaller)
    /\ bi' = bi
    /\ bpc' = "returned"
    /\ UNCHANGED <<sem, sessVars, raw, clean, last_error, result,
                   exc, usernames, paces, closeVars, remote, api_response>>

\* except Exception as e: the ERROR result is appended, the loop goes on
\* a variant whose handler tries the same handle again
BulkExcept_RetrySame ==
    /\ bpc = "calling"
    /\ pc[BulkCaller] = "raised"
    /\ results' = results
    /\ DropFrame(BulkCaller)
    /\ bi' = bi
    /\ bpc' = "loop"
    /\ UNCHANGED <<sem, sessVars, raw, clean, last_error, result,
                   exc, usernames, paces, closeVars, remote, api_response>>

BulkExcept ==
    /\ bpc = "calling"
    /\ pc[BulkCaller] = "raised"
    /\ results' = Append(results,
                         CheckResult(usernames[bi], "ERROR",
                                     Msg("exception", 0, exc[BulkCaller])))
    /\ DropFrame(BulkCaller)
    /\ IF bi < Len(usernames)
       THEN bi' = bi + 1 /\ bpc' = "loop"
       ELSE bi' = bi /\ bpc' = "returned"
    /\ UNCHANGED <<sem, sessVars, raw, clean, last_error, result,
                   exc, usernames, paces, closeVars, remote, api_response>>

\* ------------------------------------------------------------ the inputs
RawInputs ==
    SeqsUpTo(Chars, MaxRawLen) \cup {Rep("a", PatternMax), Rep("a", PatternMax + 1)}

BulkNames == {<<"a", "B">>, <<"@">>, <<" ", "@", "a", "a">>}
ConcNames == {<<"a", "B">>, <<"a", " ", "a">>}
\* the task of the single-call specification: the last one
SingleCaller == CHOOSE c \in Callers : \A d \in Callers : c >= d
ConcList == <<<<"a", "B">>, <<"a", " ", "a">>>>

\* the checker after __init__, no call made yet
InitChecker ==
    /\ sem = ConcurrentLimit
    /\ session = 0
    /\ closedS = {}
    /\ nsess = 0
    /\ clean = [c \in Callers |-> <<>>]
    /\ attempt = [c \in Callers |-> 0]
    /\ last_error = [c \in Callers |-> NoException]
    /\ result = [c \in Callers |-> None]
    /\ exc = [c \in Callers |-> NoException]
    /\ resp = [c \in Callers |-> NoResponse]
    /\ trace = [c \in Callers |-> <<>>]
    /\ api_result = [c \in Callers |-> None]
    /\ api_error = [c \in Callers |-> NoException]
    /\ results = <<>>
    /\ bi = 0
    /\ paces = 0
    /\ cpc = "idle"
    /\ ncloses = 0

\* one check_username call on a fresh checker, any raw input
Init ==
    /\ InitChecker
    /\ \E u \in RawInputs :
         raw = [c \in Callers |-> IF c = SingleCaller THEN u ELSE <<>>]
    /\ pc = [c \in Callers |-> IF c = SingleCaller THEN "start" ELSE "idle"]
    /\ usernames = <<>>
    /\ bpc = "idle"
    /\ remote = "full"
    /\ api_response = NoApiResponse

Next ==
    \E c \in Callers : Call(c) \/ ApiDone(c) \/ PageDone(c) \/ Wake(c)

Spec == Init /\ [][Next]_vars

\* one check_bulk call on a fresh checker
InitBulk ==
    /\ InitChecker
    /\ raw = [c \in Callers |-> <<>>]
    /\ pc = [c \in Callers |-> IF c = BulkCaller THEN "start" ELSE "idle"]
    /\ usernames \in SeqsUpTo(BulkNames, MaxBulk)
    /\ bpc = "start"
    /\ remote = "lite"
    /\ api_response = NoApiResponse

NextBulk ==
    \/ BulkStart \/ BulkIter \/ BulkResult \/ BulkPaced \/ BulkExcept
    \/ ApiDone(BulkCaller) \/ PageDone(BulkCaller) \/ Wake(BulkCaller)

SpecBulk == InitBulk /\ [][NextBulk]_vars

\* check_bulk, check_username calls and close() running concurrently on
\* one checker
InitConc ==
    /\ InitChecker
    /\ raw \in {f \in [Callers -> ConcNames \cup {<<>>}] :
                   \A c \in Callers : f[c] = <<>> <=> c = BulkCaller}
    /\ pc = [c \in Callers |-> "start"]
    /\ usernames = ConcList
    /\ bpc = "start"
    /\ remote = "lite"
    /\ api_response = NoApiResponse

NextConc ==
    \/ \E c \in Callers :
         Call(c) \/ Acquire(c) \/ ApiDone(c) \/ PageDone(c) \/ Wake(c)
    \/ BulkStart \/ BulkIter \/ BulkResult \/ BulkPaced \/ BulkExcept
    \/ Close \/ CloseEnd

SpecConc == InitConc /\ [][NextConc]_vars

\* valid lowercase handles, and each of them written with a leading blank, an
\* '@', in upper case and with a trailing blank
NormNames == {s \in SeqsUpTo({"a", "b", "_"}, PatternMin + 1) : PatternCore(s)}

Decorate(s) == <<" ", "@">> \o Upper(s) \o <<" ">>

\* one check_username call on a fresh checker, for a valid lowercase handle or
\* its decorated spelling
InitNorm ==
    /\ InitChecker
    /\ \E u \in NormNames \cup {Decorate(s) : s \in NormNames} :
         raw = [c \in Callers |-> IF c = SingleCaller THEN u ELSE <<>>]
    /\ pc = [c \in Callers |-> IF c = SingleCaller THEN "start" ELSE "idle"]
    /\ usernames = <<>>
    /\ bpc = "idle"
    /\ remote = "lite"
    /\ api_response = NoApiResponse

SpecNorm == InitNorm /\ [][Next]_vars

\* check_bulk where every request ends and every sleep is over after a while:
\* a step that can be taken is taken
SpecBulkFair == InitBulk /\ [][NextBulk]_vars /\ WF_vars(NextBulk)

\* one check_username call against a remote whose probe endpoint gives one
\* fixed answer, any of those a probe request can end in
ApiNames == {<<"a", "B">>, <<"@", "a", "a">>}

InitApi ==
    /\ InitChecker
    /\ \E u \in ApiNames :
         /\ raw = [c \in Callers |-> IF c = SingleCaller THEN u ELSE <<>>]
         /\ api_response \in ApiOutcomesFull(clean_username(u))
    /\ pc = [c \in Callers |-> IF c = SingleCaller THEN "start" ELSE "idle"]
    /\ usernames = <<>>
    /\ bpc = "idle"
    /\ remote = "probe"

SpecApi == InitApi /\ [][Next]_vars

\* ------------------------------------------------------------ properties
Statuses == {"AVAILABLE", "TAKEN", "UNAVAILABLE", "ERROR"}

CountEv(tr, kind) == Cardinality({i \in 1..Len(tr) : tr[i].ev = kind})

\* task c issues an HTTP request in this step
Issues(c) ==
    /\ Len(trace'[c]) = Len(trace[c]) + 1
    /\ trace'[c][Len(trace'[c])].ev \in {"api", "page"}

\* r is a result about input u: it names u as given or as cleaned
OutcomeFor(r, u) ==
    /\ r.status \in Statuses
    /\ r.username \in {u, clean_username(u)}

\* C1: check_bulk returns exactly one result per input, the i-th result being
\* about the i-th input, whatever the single resolutions end in (a result,
\* exhausted retries or an exception); at no point of the loop is a result
\* missing, doubled or out of place.
C1_BulkOneResultPerInput ==
    /\ Len(results) <= Len(usernames)
    /\ \A i \in 1..Len(results) : OutcomeFor(results[i], usernames[i])
    /\ bpc = "calling" => Len(results) = bi - 1
    /\ bpc = "pacing" => Len(results) = bi
    /\ bpc = "returned" => Len(results) = Len(usernames)

C1_Witness ==
    /\ bpc = "returned"
    /\ Len(usernames) >= 2
    /\ usernames[1] # usernames[2]
    /\ results[1].message.text = "exception"
    /\ results[2].message.text = "exhausted"

\* C2: when check_username raises inside check_bulk, the handler appends an
\* ERROR result for that handle at its position, carrying the exception, and
\* the loop goes on with the next handle (or returns after the last one).
C2_ExceptionCaptured ==
    [][(bpc = "calling" /\ pc[BulkCaller] = "raised") =>
         /\ results' = Append(results,
                              CheckResult(usernames[bi], "ERROR",
                                          Msg("exception", 0, exc[BulkCaller])))
         /\ Len(results') = bi
         /\ IF bi < Len(usernames)
            THEN bpc' = "loop" /\ bi' = bi + 1
            ELSE bpc' = "returned"]_vars

C2_Witness ==
    /\ bpc = "calling"
    /\ bi = 2
    /\ results[1].status = "ERROR"
    /\ results[1].message.text = "exception"
    /\ pc[BulkCaller] \in {"api_wait", "page_wait"}

\* C3: an attempt that ends in a transport fault is followed by a backoff and
\* another attempt while fewer than MAX_RETRIES were made; the fault of
\* attempt MAX_RETRIES ends the call with an ERROR result naming MAX_RETRIES
\* and that fault, after exactly MAX_RETRIES attempts; a transport fault is
\* never raised to the caller.
C3_ExhaustedRetriesGiveError ==
    \A c \in Callers :
        /\ exc[c] \notin TransportFaults
        /\ (resp[c].kind = "exc" /\ resp[c].err \in TransportFaults) =>
             IF attempt[c] < MAX_RETRIES
             THEN pc[c] = "sleep" /\ result[c] = None
             ELSE /\ pc[c] = "done"
                  /\ attempt[c] = MAX_RETRIES
                  /\ result[c] = CheckResult(clean[c], "ERROR",
                                     Msg("exhausted", MAX_RETRIES, resp[c].err))
                  /\ CountEv(trace[c], "api") = MAX_RETRIES
                  /\ CountEv(trace[c], "page") = MAX_RETRIES
                  /\ CountEv(trace[c], "sleep") = MAX_RETRIES - 1

C3_Witness ==
    \E c \in Callers :
        /\ pc[c] = "done"
        /\ result[c].status = "ERROR"
        /\ result[c].message = Msg("exhausted", 3, "TimeoutError")
        /\ CountEv(trace[c], "page") = 3

\* C4 (as claimed): a call whose cleaned handle fails the format pattern ends
\* UNAVAILABLE with the format message, having created no session, issued no
\* request and taken no permit.
C4_InvalidFormatNoNetwork ==
    \A c \in Callers :
        (pc[c] \notin {"idle", "start"} /\ ~USERNAME_PATTERN(clean[c])) =>
            /\ pc[c] = "done"
            /\ result[c].status = "UNAVAILABLE"
            /\ result[c].message.text = "format"
            /\ trace[c] = <<>>
            /\ nsess = 0
            /\ sem = ConcurrentLimit

\* C5 (as claimed): the handle of every request issued is lowercase, does not
\* start with '@' and has no whitespace at either end.
C5_RequestHandleNormalized ==
    \A c \in Callers : \A i \in 1..Len(trace[c]) :
        trace[c][i].ev \in {"api", "page"} =>
            LET h == trace[c][i].h IN
            /\ h = Lower(h)
            /\ h # <<>>
            /\ h[1] # "@"
            /\ h[1] \notin Whitespace
            /\ h[Len(h)] \notin Whitespace

\* C6: the tasks past the semaphore and not yet out of it (waiting for a
\* response or sleeping between attempts) never number more than
\* concurrent_limit.
InFlight == {c \in Callers : pc[c] \in {"api_wait", "page_wait", "sleep"}}

C6_InFlightBounded == Cardinality(InFlight) <= ConcurrentLimit

C6_Witness ==
    /\ Cardinality(InFlight) = ConcurrentLimit
    /\ \E c \in Callers : pc[c] = "sleep"
    /\ \E c \in Callers : pc[c] = "gate"

\* C7: a call that ended on a profile-page response has the status its HTTP
\* status dictates: 404 AVAILABLE, 403 ERROR, 500 and above ERROR, anything
\* else but 200 TAKEN.
C7_StatusDecides ==
    \A c \in Callers :
        (pc[c] = "done" /\ resp[c].kind = "resp") =>
            LET s == resp[c].status
                st == result[c].status
            IN  /\ s = 404 => st = "AVAILABLE"
                /\ s = 403 => st = "ERROR"
                /\ s >= 500 => st = "ERROR"
                /\ (s \notin {200, 403, 404} /\ s < 500) => st = "TAKEN"

C7_Witness ==
    \E c \in Callers :
        /\ pc[c] = "done"
        /\ resp[c].kind = "resp"
        /\ resp[c].status = 404
        /\ resp[c].body.banned
        /\ resp[c].body.uid = clean[c]
        /\ result[c].status = "AVAILABLE"

\* C8: once the profile page answered, the call is over: the classification
\* of that response is the result, the page request is the last thing the
\* call did (no sleep, no request after it), and the attempt that got the
\* answer is the last one, also when the classification is ERROR.
C8_ResponseEndsCall ==
    \A c \in Callers :
        resp[c].kind = "resp" =>
            /\ pc[c] = "done"
            /\ result[c] = analyze_response(clean[c], resp[c].status, resp[c].body)
            /\ trace[c][Len(trace[c])].ev = "page"
            /\ CountEv(trace[c], "page") = attempt[c]
            /\ CountEv(trace[c], "sleep") = attempt[c] - 1

C8_Witness ==
    \E c \in Callers :
        /\ pc[c] = "done"
        /\ resp[c].kind = "resp"
        /\ resp[c].status = 503
        /\ result[c].status = "ERROR"
        /\ attempt[c] = 1
        /\ Len(trace[c]) = 2

\* C9 (as claimed): check_username never raises.
C9_NeverRaises == \A c \in Callers : pc[c] # "raised"

\* C9 (amended): check_username raises exactly when the profile-page request
\* of the current attempt ended in an exception that is neither a
\* ClientError nor a timeout; it then raises that exception and returns no
\* result.  Every other end of a call is a returned CheckResult.
C9_RaisesOnlyUnexpectedPageFault ==
    \A c \in Callers :
        /\ pc[c] = "raised" <=>
             (resp[c].kind = "exc" /\ resp[c].err \notin TransportFaults)
        /\ pc[c] = "raised" =>
             /\ exc[c] = resp[c].err
             /\ result[c] = None
             /\ trace[c][Len(trace[c])].ev = "page"
        /\ pc[c] = "done" => (result[c].status \in Statuses /\ exc[c] = NoException)

C9_Witness ==
    \E c \in Callers :
        /\ pc[c] = "raised"
        /\ exc[c] = "Other"
        /\ attempt[c] = 2

\* C10: close() changes nothing when there is no session or the session is
\* closed; a close() that ran to its end leaves _session None; every request
\* is issued on an open session, a newly constructed one when _session was
\* None or closed.
C10_CloseKeepsCheckerUsable ==
    [][/\ (cpc = "idle" /\ ncloses' = ncloses + 1) =>
            (~SessionOpen /\ UNCHANGED <<session, closedS, nsess>>)
       /\ (cpc = "closing" /\ cpc' = "idle") => session' = 0
       /\ \A c \in Callers : Issues(c) =>
            /\ session' # 0
            /\ session' \notin closedS'
            /\ IF session = 0 \/ session \in closedS
               THEN session' = nsess + 1 /\ nsess' = nsess + 1
               ELSE session' = session /\ nsess' = nsess]_vars

C10_Witness ==
    /\ ncloses >= 1
    /\ cpc = "idle"
    /\ nsess >= 2
    /\ SessionOpen
    /\ closedS # {}
    /\ \E c \in Callers : pc[c] \in {"api_wait", "page_wait"}

\* C11: for every valid lowercase handle s, the call made with
\* ' @' + s.upper() + ' ' works on the same normalised handle as the call
\* made with s: clean_username gives the same string for both.
C11_DecoratedNormalisesAlike ==
    \A c \in Callers : \A s \in NormNames :
        /\ raw[c] \in {s, Decorate(s)}
        /\ pc[c] \notin {"idle", "start"}
        => clean[c] = clean_username(s) /\ clean_username(s) = s

\* the results whose username field is set outside the resolver: the format
\* rejection of check_username and the exception handler of check_bulk
RawNamed(r) == r.message.text \in {"format", "exception"}

\* C12 as stated: the username field of every result, of check_username and
\* of check_bulk, is the raw input exactly as the caller passed it.
C12_UsernameIsRawInput ==
    /\ \A i \in 1..Len(results) : results[i].username = usernames[i]
    /\ \A c \in Callers : pc[c] = "done" => result[c].username = raw[c]

\* C12: the username field is the raw input only in the format rejection and
\* in the result check_bulk builds for a captured exception; every result of
\* the resolver (probe, fallback page, exhausted retries) carries the
\* normalised handle.
C12_UsernameRawOrNormalised ==
    /\ \A i \in 1..Len(results) :
         results[i].username = IF RawNamed(results[i]) THEN usernames[i]
                               ELSE clean_username(usernames[i])
    /\ \A c \in Callers :
         pc[c] = "done" =>
             result[c].username = IF RawNamed(result[c]) THEN raw[c]
                                  ELSE clean_username(raw[c])

C12_Witness ==
    /\ bpc = "returned"
    /\ Len(results) = 2
    /\ results[1].message.text = "format"
    /\ usernames[1] # clean_username(usernames[1])
    /\ results[2].message.text = "exhausted"
    /\ results[2].username # usernames[2]

\* C13: check_bulk([]) returns the empty list and touches nothing: no session
\* is created, no request is issued, no permit is taken, no check_username
\* call is started and the loop with its pacing sleep is never entered.
C13_EmptyBulkDoesNothing ==
    usernames = <<>> =>
        /\ bpc \in {"start", "returned"}
        /\ results = <<>>
        /\ bi = 0
        /\ session = 0 /\ nsess = 0 /\ closedS = {}
        /\ sem = ConcurrentLimit
        /\ pc[BulkCaller] = "start"
        /\ \A c \in Callers : trace[c] = <<>>

C13_Witness ==
    /\ usernames = <<>>
    /\ bpc = "returned"
    /\ results = <<>>

\* C14: when every request eventually ends (response or fault) and every
\* sleep is over after a while, check_bulk eventually returns, with as many
\* results as it was given handles.
C14_BulkTerminates ==
    <>(bpc = "returned" /\ Len(results) = Len(usernames))

C14_Witness ==
    /\ bpc = "returned"
    /\ Len(usernames) >= 2
    /\ Len(results) = Len(usernames)
    /\ results[1].message.text = "exhausted"
    /\ results[2].message.text = "exception"

\* the last request of task c, if any
LastEv(c) == trace[c][Len(trace[c])]

\* C15: in every attempt the probe request comes first and the profile-page
\* request follows it directly, only when the probe was inconclusive; a probe
\* that yields a status ends the call with that result and no page request
\* of that attempt exists.
C15_ProbeFirstPageOnlyIfInconclusive ==
    \A c \in Callers :
        /\ \A i \in 1..Len(trace[c]) :
             /\ trace[c][i].ev = "page" => i > 1 /\ trace[c][i - 1].ev = "api"
             /\ trace[c][i].ev = "api" => i = 1 \/ trace[c][i - 1].ev = "sleep"
             /\ trace[c][i].ev = "sleep" => i > 1 /\ trace[c][i - 1].ev = "page"
        /\ (pc[c] = "page_wait" \/ resp[c] # NoResponse) => api_result[c] = None
        /\ api_result[c] # None =>
             /\ api_result[c].status \in {"AVAILABLE", "TAKEN", "UNAVAILABLE"}
             /\ pc[c] = "done"
             /\ result[c] = api_result[c]
             /\ LastEv(c).ev = "api"
             /\ CountEv(trace[c], "page") = attempt[c] - 1

\* a probe that decides in the second attempt, after an attempt that needed
\* the page
C15_Witness ==
    \E c \in Callers :
        /\ api_result[c] # None
        /\ api_result[c].status = "TAKEN"
        /\ attempt[c] = 2
        /\ CountEv(trace[c], "page") = 1
        /\ CountEv(trace[c], "api") = 2

\* the probe of task c's current attempt has been answered
ProbeAnswered(c) == pc[c] \in {"page_wait", "sleep", "done", "raised"} /\ attempt[c] >= 1

\* an HTTP 200 response whose body parsed into a JSON object
Parsed200(o) == o.kind = "resp" /\ o.status = 200 /\ o.parse = "dict"

\* the status field of a parsed body: statusCode, else status_code
StatusField(o) == IF o.sc # Absent THEN o.sc ELSE o.sc2

\* the status the probe's result carries for status field f, "NONE" when the
\* probe is inconclusive
SentinelVerdict(f, uid, h) ==
    IF f = 10202 THEN "AVAILABLE"
    ELSE IF f = 10101 THEN "UNAVAILABLE"
    ELSE IF f = 0 /\ Lower(uid) = Lower(h) THEN "TAKEN"
    ELSE "NONE"

\* C16 as stated: the probe is conclusive only for HTTP 200 with a parsed body
\* whose status field is one of the three sentinels (0 needing a matching
\* uniqueId); a body with no status field is inconclusive.
C16_ProbeConclusiveOnlyOnSentinel ==
    \A c \in Callers :
        ProbeAnswered(c) =>
            api_result[c].status =
                IF Parsed200(api_response) /\ StatusField(api_response) # Absent
                THEN SentinelVerdict(StatusField(api_response),
                                     api_response.uid, clean[c])
                ELSE "NONE"

\* C16: as above, except that a parsed body with neither statusCode nor
\* status_code counts as status 0: with a matching uniqueId it gives TAKEN.
C16_ProbeVerdict ==
    \A c \in Callers :
        ProbeAnswered(c) =>
            /\ api_result[c].status =
                IF Parsed200(api_response)
                THEN SentinelVerdict(IF StatusField(api_response) # Absent
                                     THEN StatusField(api_response) ELSE 0,
                                     api_response.uid, clean[c])
                ELSE "NONE"
            /\ api_result[c] # None => api_result[c].username = clean[c]

\* a body without a status field whose uniqueId is the handle in another case
C16_Witness ==
    \E c \in Callers :
        /\ ProbeAnswered(c)
        /\ Parsed200(api_response)
        /\ StatusField(api_response) = Absent
        /\ api_response.uid # clean[c]
        /\ api_result[c].status = "TAKEN"

\* C17: a fault, timeout or parse failure of the probe request stays inside
\* the probe: the step in which it occurs leaves the attempt number,
\* last_error, the result, the raised exception and the permit as they were
\* and issues the profile-page request of the same attempt.
C17_ProbeFaultSwallowed ==
    [][\A c \in Callers :
          (pc[c] = "api_wait" /\ api_error'[c] # NoException) =>
              /\ pc'[c] = "page_wait"
              /\ attempt'[c] = attempt[c]
              /\ last_error'[c] = last_error[c]
              /\ exc'[c] = exc[c]
              /\ result'[c] = result[c]
              /\ sem' = sem
              /\ trace'[c] = Append(trace[c], Ev("page", clean[c], 0))]_vars

\* a probe that timed out in the first attempt, whose page then answered
C17_Witness ==
    \E c \in Callers :
        /\ api_error[c] = "TimeoutError"
        /\ attempt[c] = 1
        /\ pc[c] = "done"
        /\ last_error[c] = NoException
        /\ result[c].message.text = "free"

\* the cascade for an HTTP 200 body, as the ordered list of its rules (a)-(f):
\* whether the rule matches, and the status and message it gives
Rules(b, h) ==
    <<[hit |-> b.dnf, status |-> "AVAILABLE", text |-> "free"],
      [hit |-> b.uid # <<>> /\ Lower(b.uid) = Lower(h),
       status |-> "TAKEN", text |-> "taken"],
      [hit |-> Cardinality(b.stats) >= 2, status |-> "TAKEN", text |-> "taken"],
      [hit |-> b.banned, status |-> "UNAVAILABLE", text |-> "banned"],
      [hit |-> b.tnf, status |-> "AVAILABLE", text |-> "free"],
      [hit |-> TRUE, status |-> "TAKEN", text |-> "manual"]>>

FirstRule(b, h) ==
    LET rs == Rules(b, h)
        i == CHOOSE k \in 1..Len(rs) :
                 rs[k].hit /\ \A j \in 1..(k - 1) : ~rs[j].hit
    IN  rs[i]

\* task c got an HTTP 200 page and its call ended with the page's verdict
Page200(c) == pc[c] = "done" /\ resp[c].kind = "resp" /\ resp[c].status = 200

\* C18: for an HTTP 200 page the result is the outcome of the first rule of
\* (a)-(f) that matches the body; later rules that also match do not count,
\* and one profile-statistics key alone is no match of rule (c).
C18_FirstMatchingRuleWins ==
    \A c \in Callers :
        Page200(c) =>
            /\ result[c].status = FirstRule(resp[c].body, clean[c]).status
            /\ result[c].message.text = FirstRule(resp[c].body, clean[c]).text
            /\ result[c].username = clean[c]

\* one statistics key, a banned marker and a generic not-found text: rule (d)
C18_Witness ==
    \E c \in Callers :
        /\ Page200(c)
        /\ ~resp[c].body.dnf
        /\ Lower(resp[c].body.uid) # Lower(clean[c])
        /\ Cardinality(resp[c].body.stats) = 1
        /\ resp[c].body.banned /\ resp[c].body.tnf
        /\ result[c].status = "UNAVAILABLE"

\* the evidence a result AVAILABLE of task c can rest on
ProbeSaysNotFound(c) ==
    /\ resp[c] = NoResponse
    /\ Parsed200(api_response)
    /\ StatusField(api_response) = 10202

PageSaysNotFound(c) ==
    /\ resp[c].kind = "resp"
    /\ \/ resp[c].status = 404
       \/ /\ resp[c].status = 200
          /\ \/ resp[c].body.dnf
             \/ /\ resp[c].body.tnf
                /\ ~resp[c].body.banned
                /\ Cardinality(resp[c].body.stats) < 2
                /\ Lower(resp[c].body.uid) # Lower(clean[c])

\* C19: a call ends with AVAILABLE only when the probe returned the not-found
\* sentinel, or the page request returned 404, or it returned 200 with a
\* not-found marker that no earlier rule overrides; nothing else (an
\* unrecognised page, another HTTP status, exhausted retries, an exception)
\* gives AVAILABLE.
C19_AvailableOnlyOnEvidence ==
    \A c \in Callers :
        /\ (pc[c] = "done" /\ result[c].status = "AVAILABLE") =>
               ProbeSaysNotFound(c) \/ PageSaysNotFound(c)
        /\ pc[c] = "raised" => result[c] = None

\* AVAILABLE by the generic not-found text, reached after a retry
C19_Witness ==
    \E c \in Callers :
        /\ pc[c] = "done"
        /\ result[c].status = "AVAILABLE"
        /\ attempt[c] = 2
        /\ resp[c].status = 200
        /\ ~resp[c].body.dnf /\ resp[c].body.tnf
        /\ ~ProbeSaysNotFound(c)

\* the delays of the back-off sleeps of a trace, in their order
RECURSIVE Sleeps(_)
Sleeps(tr) ==
    IF tr = <<>> THEN <<>>
    ELSE IF Head(tr).ev = "sleep" THEN <<Head(tr).d>> \o Sleeps(Tail(tr))
    ELSE Sleeps(Tail(tr))

\* C20: the sleep after failed attempt k, k < MAX_RETRIES, lasts
\* RETRY_DELAY * k seconds (2, then 4), whether the attempt failed with a
\* client error or with a timeout; a task sleeps exactly when its attempt
\* failed and was not the last, so nothing is slept after the last attempt.
C20_LinearBackoff ==
    \A c \in Callers :
        LET ds == Sleeps(trace[c]) IN
        /\ \A k \in 1..Len(ds) : ds[k] = RETRY_DELAY * k
        /\ Len(ds) <= MAX_RETRIES - 1
        /\ Len(ds) = IF pc[c] = "sleep" THEN attempt[c]
                     ELSE IF attempt[c] = 0 THEN 0 ELSE attempt[c] - 1
        /\ (pc[c] = "sleep" \/ resp[c].err \in TransportFaults) =>
               /\ resp[c].err \in TransportFaults
               /\ last_error[c] = resp[c].err
               /\ pc[c] = "sleep" <=> attempt[c] < MAX_RETRIES
               /\ pc[c] = "done" <=> attempt[c] = MAX_RETRIES

\* three failed attempts, a client error and then timeouts: sleeps of 2 and 4
\* seconds, none after the third
C20_Witness ==
    \E c \in Callers :
        /\ pc[c] = "done"
        /\ attempt[c] = MAX_RETRIES
        /\ result[c].message.text = "exhausted"
        /\ last_error[c] = "TimeoutError"
        /\ Sleeps(trace[c]) = <<RETRY_DELAY, RETRY_DELAY * 2>>
        /\ LastEv(c).ev = "page"

\* C21: one pacing sleep lies between every two consecutive resolutions of
\* check_bulk, whatever the earlier one ended in, and none follows the last:
\* when the resolution of handle number bi begins or runs, bi - 1 sleeps have
\* been begun, and a returned batch of n handles has slept n - 1 times.
C21_PacingBetweenAll ==
    /\ bpc \in {"loop", "calling"} => paces = bi - 1
    /\ bpc = "pacing" => paces = bi
    /\ (bpc = "returned" /\ usernames # <<>>) => paces = Len(usernames) - 1

\* what follows the leading '@' characters of a raw input
AtTail(u) == LStripAt(u)

\* raw inputs of two or more '@' followed by a handle that matches the pattern
ManyAts(u) == Len(u) - Len(AtTail(u)) >= 2 /\ PatternCore(AtTail(u))

\* C22 as stated: exactly one leading '@' is removed, so '@@name' still
\* starts with '@' after normalisation, is rejected by the format check as
\* UNAVAILABLE and causes no request.
C22_OneAtRemoved ==
    \A c \in Callers :
        (ManyAts(raw[c]) /\ pc[c] \notin {"idle", "start"}) =>
            /\ clean[c] # <<>> /\ Head(clean[c]) = "@"
            /\ pc[c] = "done"
            /\ result[c] = FormatError(raw[c])
            /\ trace[c] = <<>>

\* C22: every leading '@' is removed: '@@name' normalises to 'name' in lower
\* case, passes the format check and is resolved over the network as 'name'.
C22_EveryLeadingAtRemoved ==
    \A c \in Callers :
        (ManyAts(raw[c]) /\ pc[c] \notin {"idle", "start"}) =>
            /\ clean[c] = Lower(AtTail(raw[c]))
            /\ attempt[c] >= 1
            /\ trace[c] # <<>>
            /\ \A i \in 1..Len(trace[c]) : trace[c][i].h = Lower(AtTail(raw[c]))
            /\ pc[c] = "done" => /\ result[c].username = Lower(AtTail(raw[c]))
                                 /\ result[c].message.text # "format"

C22_Witness ==
    \E c \in Callers :
        /\ raw[c] = <<"@", "@", "a", "B">>
        /\ pc[c] = "done"
        /\ clean[c] = <<"a", "b">>
        /\ result[c].status = "AVAILABLE"
        /\ CountEv(trace[c], "api") = 1

\* the sessions this checker constructed and that were not closed
OpenSessions == (1..nsess) \ closedS

\* C23: no session exists before the first request; the sessions that are
\* open are at most one, the one _session refers to, so that every request
\* finds it and shares it.
C23_AtMostOneOpenSession ==
    /\ ((\A c \in Callers : pc[c] \in {"idle", "start"}) /\ results = <<>>) =>
           nsess = 0
    /\ Cardinality(OpenSessions) <= 1
    /\ OpenSessions # {} => OpenSessions = {session}

\* C25: with close() running beside check_username calls, whenever a close()
\* has returned, none is running and _session is None, every session the
\* checker constructed is closed: none is left open with no reference to it.
C25_NoOpenSessionUnreferenced ==
    (ncloses >= 1 /\ cpc = "idle" /\ session = 0) => \A s \in 1..nsess : s \in closedS

Requests(c) == CountEv(trace[c], "api") + CountEv(trace[c], "page")

\* C26: a call issues one probe request per attempt and at most one page
\* request per attempt, so at most 2 * MAX_RETRIES requests in all; once the
\* call has its CheckResult it is over: it waits for no request and no sleep,
\* and the last thing it did was the request that gave the result.
C26_RequestsBounded ==
    \A c \in Callers :
        /\ CountEv(trace[c], "api") = attempt[c]
        /\ attempt[c] <= MAX_RETRIES
        /\ CountEv(trace[c], "page") <= attempt[c]
        /\ Requests(c) <= 2 * MAX_RETRIES
        /\ result[c] # None =>
               /\ pc[c] = "done"
               /\ ~ENABLED (ApiDone(c) \/ PageDone(c) \/ Wake(c))
               /\ trace[c] # <<>> => LastEv(c).ev \in {"api", "page"}

\* the bound is reached: three attempts of two requests each, then the result
C26_Witness ==
    \E c \in Callers :
        /\ pc[c] = "done"
        /\ result[c].status = "TAKEN"
        /\ Requests(c) = 2 * MAX_RETRIES

\* C27: the free permits and the resolutions in flight always add up to
\* concurrent_limit: every exit of a resolution (result, exhausted retries,
\* exception) gives its permit back exactly once, so with nothing in flight
\* all permits are free, and the count never leaves 0..concurrent_limit.
C27_PermitsBalanced ==
    /\ sem + Cardinality(InFlight) = ConcurrentLimit
    /\ sem \in 0..ConcurrentLimit
    /\ InFlight = {} => sem = ConcurrentLimit

\* nothing in flight after a call that raised, a batch with an
\* exhausted-retries result and a result of the page
C27_Witness ==
    /\ InFlight = {}
    /\ sem = ConcurrentLimit
    /\ bpc = "returned"
    /\ results[1].message.text = "exhausted"
    /\ results[2].message.text = "format"
    /\ \E c \in Callers : pc[c] = "raised"

====
